---- MODULE Spec2Model ----
(***************************************************************************)
(* Model of the statsd sink and its UDP transport.                         *)
(*                                                                         *)
(*   src/src/sinks/util/udp.rs   UdpSink: the connection state machine     *)
(*                               (poll_inner), start_send, poll_complete   *)
(*                               and the exponential backoff generator.    *)
(*   src/src/sinks/statsd.rs     StatsdSvc: the tower service the batching *)
(*                               sink hands closed batches to.             *)
(*                                                                         *)
(*   src/src/endpoint.rs         Endpoint: a validated base address and    *)
(*                               the joining of request paths onto it.     *)
(*                                                                         *)
(* The specifications share the variables:                                 *)
(*   Spec        one UdpSink driven directly by a caller (start_send,      *)
(*               poll_complete) against a resolver and a timer;            *)
(*   SpecStatsd  one StatsdSvc receiving closed batches in order, every    *)
(*               call() building its own UdpSink as the code does;         *)
(*   SpecEndpoint  Endpoint values constructed from URIs and used to build *)
(*               request URIs;                                             *)
(*   SpecEncode  the statsd encoder applied to metric events.              *)
(***************************************************************************)
EXTENDS Integers, Sequences, FiniteSets, TLC

(***************************************************************************)
(* Bounds of the model.                                                    *)
(***************************************************************************)
MaxIps == 2
MaxAddrs == 2
MaxFailures == 10
MaxLines == 3
MaxBatches == 2
MaxSvcFailures == 1
MaxPathLen == 3
MaxRelLen == 2
MaxSamples == 2

(***************************************************************************)
(* Program constants.                                                      *)
(***************************************************************************)
BackoffBaseMillis == 2
BackoffFactor == 250
MaxDelaySecs == 60
ConfigPort == 8125

Ips == 1..MaxIps
AddrLists == UNION {[1..n -> Ips] : n \in 0..MaxAddrs}
Lines == 1..MaxLines

Min(a, b) == IF a <= b THEN a ELSE b

RECURSIVE Pow(_, _)
Pow(b, n) == IF n = 0 THEN 1 ELSE b * Pow(b, n - 1)

(***************************************************************************)
(* Values of the source's types.                                           *)
(***************************************************************************)
\* std::net::SocketAddr::new(ip, port); NoAddr stands for "no address held".
SocketAddr(ip, port) == [ip |-> ip, port |-> port]
NoAddr == [ip |-> 0, port |-> 0]

\* What polling a ResolverFuture yields: still pending, an error, or the
\* list of addresses of a successful lookup (possibly empty).
DnsPending == [kind |-> "pending", addrs |-> <<>>]
DnsErr == [kind |-> "err", addrs |-> <<>>]
DnsOk(addrs) == [kind |-> "ok", addrs |-> addrs]
NoDns == [kind |-> "none", addrs |-> <<>>]
DnsResults == {DnsErr} \cup {DnsOk(a) : a \in AddrLists}
DnsFails(d) == d.kind = "err" \/ (d.kind = "ok" /\ d.addrs = <<>>)

\* futures01 Async / AsyncSink values.
AsyncReady(addr) == [kind |-> "Ready", addr |-> addr]
AsyncNotReady == [kind |-> "NotReady", addr |-> NoAddr]
AsyncSinkReady == [kind |-> "Ready", line |-> 0]
AsyncSinkNotReady(line) == [kind |-> "NotReady", line |-> line]
NoRet == [kind |-> "none", line |-> 0]

(***************************************************************************)
(* The backoff generator: ExponentialBackoff::from_millis(2).factor(250)   *)
(* .max_delay(60 s).  All durations are in milliseconds.                   *)
(***************************************************************************)
fresh_backoff ==
    [current |-> BackoffBaseMillis, base |-> BackoffBaseMillis,
     factor |-> BackoffFactor, max_delay |-> MaxDelaySecs * 1000]

\* Faulty variant of backoff_next: max_delay is ignored.
backoff_next_uncapped(b) ==
    [delay |-> b.current * b.factor,
     backoff |-> [b EXCEPT !.current = b.current * b.base]]

\* self.backoff.next().unwrap(): the delay is current * factor; when it is
\* above max_delay the cap is returned and current is left alone, otherwise
\* current is multiplied by base.  (current never exceeds 256 here, so the
\* generator's u64 saturation branch is not reachable.)
backoff_next(b) ==
    LET duration == b.current * b.factor
    IN  IF duration > b.max_delay
        THEN [delay |-> b.max_delay, backoff |-> b]
        ELSE [delay |-> duration,
              backoff |-> [b EXCEPT !.current = b.current * b.base]]

(***************************************************************************)
(* UdpSink.  The fields state, dns, addr, timer, delay, backoff and port   *)
(* are the struct's; lookups, failures, delays and answer are history: the *)
(* number of lookups started, of resolutions that failed, the delays armed *)
(* and the last answer polled from the resolver.                           *)
(*   dns    what the ResolverFuture held by ResolvingDns yields when       *)
(*          polled (NoDns outside ResolvingDns)                            *)
(*   timer  "running" or "elapsed" for the Delay held by Backoff           *)
(*          ("none" outside Backoff), delay its duration                   *)
(***************************************************************************)
UdpSink_new(port) ==
    [state |-> "Initializing", port |-> port, dns |-> NoDns, addr |-> NoAddr,
     timer |-> "none", delay |-> 0, backoff |-> fresh_backoff,
     lookups |-> 0, failures |-> 0, delays |-> <<>>, answer |-> NoDns]

\* next_delay01: draw the next delay from the generator and arm a timer.
next_delay01(s) ==
    LET n == backoff_next(s.backoff)
    IN  [s EXCEPT !.state = "Backoff", !.dns = NoDns, !.timer = "running",
                  !.delay = n.delay, !.backoff = n.backoff,
                  !.delays = Append(@, n.delay)]

\* State::Initializing arm: start a lookup; fresh is what that lookup's
\* future will yield on its first poll.
initializing_arm(s, fresh) ==
    [s EXCEPT !.state = "ResolvingDns", !.dns = fresh, !.lookups = @ + 1]

\* Faulty variant of resolving_dns_arm: the last address is taken.
resolving_dns_arm_last(s) ==
    IF s.dns.kind = "ok" /\ s.dns.addrs # <<>>
    THEN [s EXCEPT !.state = "ResolvedDns", !.dns = NoDns, !.answer = s.dns,
                   !.addr = SocketAddr(s.dns.addrs[Len(s.dns.addrs)], s.port)]
    ELSE next_delay01([s EXCEPT !.failures = @ + 1, !.answer = s.dns])

\* Faulty variant of resolving_dns_arm: an empty answer counts as resolved.
resolving_dns_arm_empty_ok(s) ==
    IF s.dns.kind = "ok"
    THEN [s EXCEPT !.state = "ResolvedDns", !.dns = NoDns, !.answer = s.dns,
                   !.addr = IF s.dns.addrs # <<>>
                            THEN SocketAddr(Head(s.dns.addrs), s.port)
                            ELSE SocketAddr(0, s.port)]
    ELSE next_delay01([s EXCEPT !.failures = @ + 1, !.answer = s.dns])

\* Faulty variant of resolving_dns_arm: the generator is reset on success.
resolving_dns_arm_reset(s) ==
    IF s.dns.kind = "ok" /\ s.dns.addrs # <<>>
    THEN [s EXCEPT !.state = "ResolvedDns", !.dns = NoDns, !.answer = s.dns,
                   !.addr = SocketAddr(Head(s.dns.addrs), s.port),
                   !.backoff = fresh_backoff]
    ELSE next_delay01([s EXCEPT !.failures = @ + 1, !.answer = s.dns])

\* State::ResolvingDns arm once the future is no longer pending: the first
\* address with the configured port, or a backoff when the lookup failed or
\* returned no address.
resolving_dns_arm(s) ==
    IF s.dns.kind = "ok" /\ s.dns.addrs # <<>>
    THEN [s EXCEPT !.state = "ResolvedDns", !.dns = NoDns, !.answer = s.dns,
                   !.addr = SocketAddr(Head(s.dns.addrs), s.port)]
    ELSE next_delay01([s EXCEPT !.failures = @ + 1, !.answer = s.dns])

\* Faulty variant of backoff_arm: the elapsed delay is armed again.
backoff_arm_rearm(s) ==
    [s EXCEPT !.timer = "running"]

\* State::Backoff arm once the delay has elapsed.
backoff_arm(s) ==
    [s EXCEPT !.state = "Initializing", !.timer = "none", !.delay = 0]

\* Faulty variant of poll_inner: a call that finds the delay elapsed returns
\* NotReady in Initializing instead of looping on.
RECURSIVE poll_inner_rest(_, _, _)
poll_inner_rest(s, fresh, path) ==
    IF s.state = "Initializing"
    THEN LET n == initializing_arm(s, fresh)
         IN  poll_inner_rest(n, fresh, Append(path, n.state))
    ELSE IF s.state = "ResolvingDns"
    THEN IF s.dns.kind = "pending"
         THEN [sink |-> s, ret |-> AsyncNotReady, path |-> path]
         ELSE LET n == resolving_dns_arm(s)
              IN  poll_inner_rest(n, fresh, Append(path, n.state))
    ELSE IF s.state = "ResolvedDns"
    THEN [sink |-> s, ret |-> AsyncReady(s.addr), path |-> path]
    ELSE IF s.timer = "running"
         THEN [sink |-> s, ret |-> AsyncNotReady, path |-> path]
         ELSE LET n == backoff_arm(s)
              IN  [sink |-> n, ret |-> AsyncNotReady,
                   path |-> Append(path, n.state)]

\* poll_inner: loop over the state until it can return.  path is the
\* sequence of states the machine has been in during this call.  A Delay
\* armed in this call (at least 500 ms) is still running when the loop polls
\* it, so a call starts at most one lookup.
RECURSIVE poll_inner(_, _, _)
poll_inner(s, fresh, path) ==
    IF s.state = "Initializing"
    THEN LET n == initializing_arm(s, fresh)
         IN  poll_inner(n, fresh, Append(path, n.state))
    ELSE IF s.state = "ResolvingDns"
    THEN IF s.dns.kind = "pending"
         THEN [sink |-> s, ret |-> AsyncNotReady, path |-> path]
         ELSE LET n == resolving_dns_arm(s)
              IN  poll_inner(n, fresh, Append(path, n.state))
    ELSE IF s.state = "ResolvedDns"
    THEN [sink |-> s, ret |-> AsyncReady(s.addr), path |-> path]
    ELSE IF s.timer = "running"
         THEN [sink |-> s, ret |-> AsyncNotReady, path |-> path]
         ELSE LET n == backoff_arm(s)
              IN  poll_inner(n, fresh, Append(path, n.state))

\* One socket.send_to(line, address); ok is the OS's answer, at the state
\* the sink was in when it sent.
SendTo(line, address, ok, at) ==
    [line |-> line, addr |-> address, ok |-> ok, at |-> at]

\* Faulty variant of start_send: a line offered while the machine is not
\* ready is accepted without being sent.
start_send_swallow(s, line, fresh, sendOk) ==
    LET r == poll_inner(s, fresh, <<s.state>>)
    IN  IF r.ret.kind = "Ready"
        THEN [sink |-> r.sink, ret |-> AsyncSinkReady, path |-> r.path,
              sends |-> <<SendTo(line, r.ret.addr, sendOk, r.sink.state)>>,
              events |-> IF sendOk THEN <<>> ELSE <<"UdpSendFailed">>]
        ELSE [sink |-> r.sink, ret |-> AsyncSinkReady,
              path |-> r.path, sends |-> <<>>, events |-> <<>>]

\* Faulty variant of start_send: a line whose send failed is handed back.
start_send_retry(s, line, fresh, sendOk) ==
    LET r == poll_inner(s, fresh, <<s.state>>)
    IN  IF r.ret.kind = "Ready"
        THEN [sink |-> r.sink,
              ret |-> IF sendOk THEN AsyncSinkReady
                      ELSE AsyncSinkNotReady(line),
              path |-> r.path,
              sends |-> <<SendTo(line, r.ret.addr, sendOk, r.sink.state)>>,
              events |-> IF sendOk THEN <<>> ELSE <<"UdpSendFailed">>]
        ELSE [sink |-> r.sink, ret |-> AsyncSinkNotReady(line),
              path |-> r.path, sends |-> <<>>, events |-> <<>>]

\* Faulty variant of start_send: a failed send makes the sink resolve again.
start_send_reresolve(s, line, fresh, sendOk) ==
    LET r == poll_inner(s, fresh, <<s.state>>)
    IN  IF r.ret.kind = "Ready"
        THEN [sink |-> IF sendOk THEN r.sink
                       ELSE [r.sink EXCEPT !.state = "Initializing",
                                           !.addr = NoAddr],
              ret |-> AsyncSinkReady, path |-> r.path,
              sends |-> <<SendTo(line, r.ret.addr, sendOk, r.sink.state)>>,
              events |-> IF sendOk THEN <<>> ELSE <<"UdpSendFailed">>]
        ELSE [sink |-> r.sink, ret |-> AsyncSinkNotReady(line),
              path |-> r.path, sends |-> <<>>, events |-> <<>>]

\* Faulty variant of start_send: a failed send is attempted a second time.
start_send_twice(s, line, fresh, sendOk) ==
    LET r == poll_inner(s, fresh, <<s.state>>)
    IN  IF r.ret.kind = "Ready"
        THEN [sink |-> r.sink, ret |-> AsyncSinkReady, path |-> r.path,
              sends |-> IF sendOk
                        THEN <<SendTo(line, r.ret.addr, TRUE, r.sink.state)>>
                        ELSE <<SendTo(line, r.ret.addr, FALSE, r.sink.state),
                               SendTo(line, r.ret.addr, TRUE, r.sink.state)>>,
              events |-> IF sendOk THEN <<>> ELSE <<"UdpSendFailed">>]
        ELSE [sink |-> r.sink, ret |-> AsyncSinkNotReady(line),
              path |-> r.path, sends |-> <<>>, events |-> <<>>]

\* start_send: poll the machine; on Ready(address) send the line (emitting
\* UdpSendFailed when the send fails) and answer Ready, on NotReady hand
\* the line back.
start_send(s, line, fresh, sendOk) ==
    LET r == poll_inner(s, fresh, <<s.state>>)
    IN  IF r.ret.kind = "Ready"
        THEN [sink |-> r.sink, ret |-> AsyncSinkReady, path |-> r.path,
              sends |-> <<SendTo(line, r.ret.addr, sendOk, r.sink.state)>>,
              events |-> IF sendOk THEN <<>> ELSE <<"UdpSendFailed">>]
        ELSE [sink |-> r.sink, ret |-> AsyncSinkNotReady(line),
              path |-> r.path, sends |-> <<>>, events |-> <<>>]

\* poll_complete: Ok(Async::Ready(())), nothing else.
poll_complete(s) ==
    [sink |-> s, ret |-> AsyncSinkReady, path |-> <<>>, sends |-> <<>>,
     events |-> <<>>]

(***************************************************************************)
(* State.                                                                  *)
(*   udp       the UdpSink of Spec                                         *)
(*   nextLine  the first line the caller has not had accepted: it offers   *)
(*             that line or a later one, never an accepted line again      *)
(*   sendLog   every send_to the sink has attempted, in order              *)
(*   last      the sink's last call: its operation, argument, the sink     *)
(*             before and after it, its answer, the states passed, the     *)
(*             send_to calls and the internal events it made               *)
(***************************************************************************)
VARIABLES udp, nextLine, sendLog, last

udpVars == <<udp, nextLine, sendLog, last>>

(***************************************************************************)
(* State of SpecStatsd.  StatsdSvc itself holds only its configuration     *)
(* (cx, mode); what changes is held by the futures call() returns.         *)
(*   reqs       per batch, the future call() returned for it: its status   *)
(*              ("none" before the call, "pending", then "ok" or "err"),   *)
(*              the error it resolved to and the UdpSink it owns           *)
(*   nextBatch  the next batch the batching sink will close and hand over  *)
(*   wire       the batches whose datagram send was attempted, in order    *)
(*   svcReady   poll_ready has answered Ready and no call has used it yet  *)
(*   svcLast    the last operation on the service or on one of its futures *)
(***************************************************************************)
VARIABLES reqs, nextBatch, wire, svcReady, svcLast

svcVars == <<reqs, nextBatch, wire, svcReady, svcLast>>

(***************************************************************************)
(* State of SpecEndpoint.                                                  *)
(*   endpoint  the last Endpoint construction: the operation, the Uri it   *)
(*             was given and its result                                    *)
(*   usage     the last use of the endpoint (build_uri or host): its       *)
(*             arguments and its result                                    *)
(***************************************************************************)
VARIABLES endpoint, usage

endpointVars == <<endpoint, usage>>

\* A string is a sequence of one-character strings.
NoAuthority == [some |-> FALSE, host |-> "", port |-> 0]
NoUri ==
    [scheme |-> "none", authority |-> NoAuthority, path |-> <<>>,
     has_query |-> FALSE, query |-> <<>>]

NoEndpoint ==
    [op |-> "none", input |-> NoUri, kind |-> "none", error |-> "none",
     uri |-> NoUri]

NoBuilt ==
    [op |-> "none", path |-> <<>>, query |-> <<>>, kind |-> "none",
     uri |-> NoUri, host |-> ""]

(***************************************************************************)
(* State of SpecEncode.                                                    *)
(*   enc      the last encode_event: the metric, the namespace and the     *)
(*            bytes returned                                               *)
(*   dec      the result of parsing the bytes of enc with the statsd       *)
(*            parser, as the encoder's tests do                            *)
(*   tagsOut  the last encode_tags: the tag map and the string returned    *)
(***************************************************************************)
VARIABLES enc, dec, tagsOut

encodeVars == <<enc, dec, tagsOut>>

\* BTreeMap<String, String>: a function from its keys to their values.
EmptyMap == [k \in {} |-> <<>>]

\* Option<BTreeMap>: metric.tags.
NoTags == [some |-> FALSE, map |-> EmptyMap]
SomeTags(map) == [some |-> TRUE, map |-> map]

\* MetricValue.  An f64 is held as a number of halves (3 is 1.5), a
\* Distribution as the sequence of its values and of its sample rates.
MetricValue(type, value, values, sample_rates, statistic, set) ==
    [type |-> type, value |-> value, values |-> values,
     sample_rates |-> sample_rates, statistic |-> statistic, set |-> set]
Counter(value) == MetricValue("Counter", value, <<>>, <<>>, "none", {})
Gauge(value) == MetricValue("Gauge", value, <<>>, <<>>, "none", {})
Distribution(values, sample_rates, statistic) ==
    MetricValue("Distribution", 0, values, sample_rates, statistic, {})
Set(values) == MetricValue("Set", 0, <<>>, <<>>, "none", values)
AggregatedHistogram == MetricValue("AggregatedHistogram", 0, <<>>, <<>>, "none", {})
AggregatedSummary == MetricValue("AggregatedSummary", 0, <<>>, <<>>, "none", {})

Metric(name, tags, kind, value) ==
    [name |-> name, tags |-> tags, kind |-> kind, value |-> value]

NoMetric == Metric(<<>>, NoTags, "none", Counter(0))

NoEncode ==
    [op |-> "none", metric |-> NoMetric, namespace |-> <<>>, frame |-> <<>>]
NoDecode == [op |-> "none", ok |-> FALSE, metric |-> NoMetric]
NoTagsOut == [op |-> "none", tags |-> EmptyMap, out |-> <<>>]

pureVars == <<endpoint, usage, enc, dec, tagsOut>>

vars ==
    <<udp, nextLine, sendLog, last, reqs, nextBatch, wire, svcReady, svcLast,
      endpoint, usage, enc, dec, tagsOut>>

Batches == 1..MaxBatches

NoRequest ==
    [status |-> "none", error |-> "none", sink |-> UdpSink_new(ConfigPort)]

NoSvcCall ==
    [op |-> "none", req |-> 0, ret |-> "none", busy |-> FALSE,
     lookupStarted |-> FALSE, resolvedBefore |-> FALSE, fromBackoff |-> FALSE]

NoCall ==
    [op |-> "none", line |-> 0, pre |-> UdpSink_new(ConfigPort),
     post |-> UdpSink_new(ConfigPort), ret |-> NoRet, path |-> <<>>,
     sends |-> <<>>, events |-> <<>>]

Init ==
    /\ udp = UdpSink_new(ConfigPort)
    /\ nextLine = 1
    /\ sendLog = <<>>
    /\ last = NoCall
    /\ reqs = [b \in Batches |-> NoRequest]
    /\ nextBatch = 1
    /\ wire = <<>>
    /\ svcReady = FALSE
    /\ svcLast = NoSvcCall
    /\ endpoint = NoEndpoint
    /\ usage = NoBuilt
    /\ enc = NoEncode
    /\ dec = NoDecode
    /\ tagsOut = NoTagsOut

\* The resolver may fail a lookup only MaxFailures times.
LookupOutcomes(s) ==
    {DnsPending} \cup {d \in DnsResults : DnsFails(d) => s.failures < MaxFailures}

\* The caller offers a line to start_send; fresh is what a lookup started by
\* this call yields on its first poll, sendOk the OS's answer to a send.
StartSend ==
    \E line \in nextLine..MaxLines, fresh \in LookupOutcomes(udp),
       sendOk \in BOOLEAN :
         LET r == start_send(udp, line, fresh, sendOk)
         IN  /\ udp' = r.sink
             /\ sendLog' = sendLog \o r.sends
             /\ nextLine' = IF r.ret.kind = "Ready" THEN line + 1 ELSE line
             /\ last' = [op |-> "start_send", line |-> line, pre |-> udp,
                         post |-> r.sink, ret |-> r.ret, path |-> r.path,
                         sends |-> r.sends, events |-> r.events]
             /\ UNCHANGED <<svcVars, pureVars>>

\* The caller polls for completion.
PollComplete ==
    /\ LET r == poll_complete(udp)
       IN  /\ udp' = r.sink
           /\ sendLog' = sendLog \o r.sends
           /\ last' = [op |-> "poll_complete", line |-> 0, pre |-> udp,
                       post |-> r.sink, ret |-> r.ret, path |-> r.path,
                       sends |-> r.sends, events |-> r.events]
    /\ UNCHANGED <<nextLine, svcVars, pureVars>>

\* The resolver finishes the pending lookup.
DnsComplete ==
    /\ udp.state = "ResolvingDns"
    /\ udp.dns.kind = "pending"
    /\ \E d \in LookupOutcomes(udp) \ {DnsPending} :
         udp' = [udp EXCEPT !.dns = d]
    /\ UNCHANGED <<nextLine, sendLog, last, svcVars, pureVars>>

\* The backoff delay elapses.
TimerElapse ==
    /\ udp.state = "Backoff"
    /\ udp.timer = "running"
    /\ udp' = [udp EXCEPT !.timer = "elapsed"]
    /\ UNCHANGED <<nextLine, sendLog, last, svcVars, pureVars>>

Next ==
    \/ StartSend
    \/ PollComplete
    \/ DnsComplete
    \/ TimerElapse

Spec == Init /\ [][Next]_vars

\* The caller offers again the line it has not had accepted, as
\* Sink::send does with its item until start_send takes it.
ReOffer == StartSend /\ last'.line = nextLine

\* The steps of a sink whose caller keeps offering the line it was handed
\* back.
NextFair ==
    \/ ReOffer
    \/ PollComplete
    \/ DnsComplete
    \/ TimerElapse

\* The standalone sink under fair scheduling: a pending lookup completes, a
\* running delay elapses, and the caller keeps offering its line.
SpecFair ==
    /\ Init
    /\ [][NextFair]_vars
    /\ WF_vars(DnsComplete)
    /\ WF_vars(TimerElapse)
    /\ WF_vars(ReOffer)

(***************************************************************************)
(* StatsdSvc (src/src/sinks/statsd.rs) on the UDP transport.               *)
(***************************************************************************)
\* UdpSinkConfig::build: the address parsed when the sink was built, so it
\* parses again; UdpSink::new binds a socket, which the OS may refuse.
UdpSinkConfig_build(bindOk) ==
    [ok |-> bindOk, sink |-> UdpSink_new(ConfigPort)]

\* StatsdSvc::poll_ready: Poll::Ready(Ok(())), whatever is in flight.
StatsdSvc_poll_ready == "Ready"

\* StatsdSvc::call up to the future it returns: build a sink from the
\* configuration; on a build error the future is err(BuildError), otherwise
\* it is sink.send(frame), which owns the new sink.
StatsdSvc_call(bindOk) ==
    LET built == UdpSinkConfig_build(bindOk)
    IN  IF built.ok
        THEN [status |-> "pending", error |-> "none", sink |-> built.sink]
        ELSE [status |-> "err", error |-> "BuildError", sink |-> built.sink]

\* One poll of the future of call(): sink.send(frame) offers the frame to
\* start_send until it is accepted, then polls poll_complete; the result is
\* mapped to Ok(()) (the sink's SinkError is never produced).
send_poll(req, frame, fresh, sendOk) ==
    LET r == start_send(req.sink, frame, fresh, sendOk)
    IN  IF r.ret.kind = "NotReady"
        THEN [req |-> [req EXCEPT !.sink = r.sink], sends |-> r.sends]
        ELSE LET c == poll_complete(r.sink)
             IN  [req |-> [status |-> "ok", error |-> "none", sink |-> c.sink],
                  sends |-> r.sends \o c.sends]

\* Some future in flight holds a transport in ResolvingDns or Backoff.
TransportUnresolved ==
    \E b \in Batches :
        /\ reqs[b].status = "pending"
        /\ reqs[b].sink.state \in {"ResolvingDns", "Backoff"}

\* Some transport of this service has resolved its destination.
TransportResolved ==
    \E b \in Batches :
        /\ reqs[b].status # "none"
        /\ reqs[b].sink.state = "ResolvedDns"

\* The resolver may fail the lookups of one transport MaxSvcFailures times.
SvcLookupOutcomes(s) ==
    {DnsPending, DnsOk(<<1>>)}
        \cup {d \in {DnsErr, DnsOk(<<>>)} : s.failures < MaxSvcFailures}

\* The batching sink asks whether the service is ready.
SvcPollReady ==
    /\ nextBatch <= MaxBatches
    /\ svcReady' = (StatsdSvc_poll_ready = "Ready")
    /\ svcLast' = [NoSvcCall EXCEPT !.op = "poll_ready",
                                    !.ret = StatsdSvc_poll_ready,
                                    !.busy = TransportUnresolved]
    /\ UNCHANGED <<reqs, nextBatch, wire, udpVars, pureVars>>

\* The batching sink (BatchSink, built around the service) hands batches
\* over in the order it closed them, each after poll_ready answered Ready;
\* the futures of earlier batches may still be in flight.
BatchSink_may_call == svcReady /\ nextBatch <= MaxBatches

\* The batching sink hands the next closed batch to call().
SvcCall ==
    /\ BatchSink_may_call
    /\ \E bindOk \in BOOLEAN :
         LET f == StatsdSvc_call(bindOk)
         IN  /\ reqs' = [reqs EXCEPT ![nextBatch] = f]
             /\ svcLast' = [NoSvcCall EXCEPT !.op = "call",
                                             !.req = nextBatch,
                                             !.ret = f.status,
                                             !.busy = TransportUnresolved]
    /\ nextBatch' = nextBatch + 1
    /\ svcReady' = FALSE
    /\ UNCHANGED <<wire, udpVars, pureVars>>

\* The executor polls the future of batch b.
SvcPoll(b) ==
    /\ reqs[b].status = "pending"
    /\ \E fresh \in SvcLookupOutcomes(reqs[b].sink), sendOk \in BOOLEAN :
         LET r == send_poll(reqs[b], b, fresh, sendOk)
         IN  /\ reqs' = [reqs EXCEPT ![b] = r.req]
             /\ wire' = wire \o [i \in 1..Len(r.sends) |-> r.sends[i].line]
             /\ svcLast' =
                   [NoSvcCall EXCEPT
                       !.op = "poll", !.req = b, !.ret = r.req.status,
                       !.busy = TransportUnresolved,
                       !.lookupStarted =
                           r.req.sink.lookups > reqs[b].sink.lookups,
                       !.resolvedBefore = TransportResolved,
                       !.fromBackoff = reqs[b].sink.state = "Backoff"]
    /\ UNCHANGED <<nextBatch, svcReady, udpVars, pureVars>>

\* The resolver finishes the pending lookup of batch b's transport.
SvcDnsComplete(b) ==
    /\ reqs[b].status = "pending"
    /\ reqs[b].sink.state = "ResolvingDns"
    /\ reqs[b].sink.dns.kind = "pending"
    /\ \E d \in SvcLookupOutcomes(reqs[b].sink) \ {DnsPending} :
         reqs' = [reqs EXCEPT ![b].sink.dns = d]
    /\ UNCHANGED <<nextBatch, wire, svcReady, svcLast, udpVars, pureVars>>

\* The backoff delay of batch b's transport elapses.
SvcTimerElapse(b) ==
    /\ reqs[b].status = "pending"
    /\ reqs[b].sink.state = "Backoff"
    /\ reqs[b].sink.timer = "running"
    /\ reqs' = [reqs EXCEPT ![b].sink.timer = "elapsed"]
    /\ UNCHANGED <<nextBatch, wire, svcReady, svcLast, udpVars, pureVars>>

NextStatsd ==
    \/ SvcPollReady
    \/ SvcCall
    \/ \E b \in Batches : SvcPoll(b)
    \/ \E b \in Batches : SvcDnsComplete(b)
    \/ \E b \in Batches : SvcTimerElapse(b)

SpecStatsd == Init /\ [][NextStatsd]_vars

(***************************************************************************)
(* Endpoint (src/src/endpoint.rs).  A Uri is what http::Uri holds: an      *)
(* optional scheme, an optional authority and the path-and-query data      *)
(* (path is the raw path, possibly empty; has_query tells whether a '?'    *)
(* follows it).                                                            *)
(***************************************************************************)
Authority(host, port) == [some |-> TRUE, host |-> host, port |-> port]

Uri(scheme, authority, path, has_query, query) ==
    [scheme |-> scheme, authority |-> authority, path |-> path,
     has_query |-> has_query, query |-> query]

RECURSIVE trim_start_matches(_, _)
trim_start_matches(s, c) ==
    IF s # <<>> /\ Head(s) = c THEN trim_start_matches(Tail(s), c) ELSE s

RECURSIVE trim_end_matches(_, _)
trim_end_matches(s, c) ==
    IF s # <<>> /\ s[Len(s)] = c
    THEN trim_end_matches(SubSeq(s, 1, Len(s) - 1), c)
    ELSE s

\* Strings over the letters of cs of length at most n.
StringsUpTo(cs, n) == UNION {[1..k -> cs] : k \in 0..n}

\* The raw paths of the URIs: empty, or starting with '/'.
BasePaths ==
    {<<>>} \cup {<<"/">> \o s : s \in StringsUpTo({"/", "a"}, MaxPathLen - 1)}
RelPaths == StringsUpTo({"/", "b"}, MaxRelLen)
Queries == {<<>>, <<"q">>}
Authorities == {Authority("example.com", 0), Authority("example.com", 8080)}

\* The values http::Uri can hold: a path (origin form), an authority alone,
\* or scheme, authority and path-and-query.
UriHasQuery == {[has_query |-> FALSE, query |-> <<>>],
                [has_query |-> TRUE, query |-> <<"q">>]}
Uris ==
    {Uri("none", NoAuthority, p, q.has_query, q.query) :
        p \in BasePaths \ {<<>>}, q \in UriHasQuery}
    \cup {Uri("none", a, <<>>, FALSE, <<>>) : a \in Authorities}
    \cup {Uri(s, Authority("example.com", 0), p, q.has_query, q.query) :
            s \in {"http", "https"}, p \in BasePaths, q \in UriHasQuery}

\* PathAndQuery::path: "/" when the path part of the data is empty.
PathAndQuery_path(path) == IF path = <<>> THEN <<"/">> ELSE path

\* Uri::path: "" when the Uri has no path (no path-and-query data and no
\* scheme, as for an authority alone), else the path of its path-and-query.
Uri_path(u) ==
    IF u.path # <<>> \/ u.has_query \/ u.scheme # "none"
    THEN PathAndQuery_path(u.path)
    ELSE <<>>

\* Uri::default(): "/".
Uri_default == Uri("none", NoAuthority, <<"/">>, FALSE, <<>>)

\* Uri::into_parts: path_and_query is Some when the data is not empty or a
\* scheme is present.
NoPathAndQuery == [some |-> FALSE, path |-> <<>>, has_query |-> FALSE, query |-> <<>>]
PathAndQuery(path, has_query, query) ==
    [some |-> TRUE, path |-> path, has_query |-> has_query, query |-> query]

Uri_into_parts(u) ==
    [scheme |-> u.scheme, authority |-> u.authority,
     path_and_query |->
        IF u.path # <<>> \/ u.has_query \/ u.scheme # "none"
        THEN PathAndQuery(u.path, u.has_query, u.query)
        ELSE NoPathAndQuery]

\* Uri::from_parts: a scheme needs an authority and a path; without a
\* scheme, authority and path exclude each other.
Uri_from_parts(parts) ==
    LET bad ==
          IF parts.scheme # "none"
          THEN ~parts.authority.some \/ ~parts.path_and_query.some
          ELSE parts.authority.some /\ parts.path_and_query.some
    IN  [ok |-> ~bad,
         uri |-> Uri(parts.scheme, parts.authority, parts.path_and_query.path,
                     parts.path_and_query.has_query,
                     parts.path_and_query.query)]

EndpointOk(uri) == [kind |-> "Ok", error |-> "none", uri |-> uri]
EndpointErr(error, uri) == [kind |-> "Err", error |-> error, uri |-> uri]
EndpointPanic(uri) == [kind |-> "Panic", error |-> "none", uri |-> uri]

\* The scheme defaulting of Endpoint::new.
default_scheme(uri) ==
    LET parts == Uri_into_parts(uri)
        withScheme ==
            [parts EXCEPT
                !.scheme = "https",
                !.path_and_query =
                    IF @.some THEN @ ELSE PathAndQuery(<<>>, FALSE, <<>>)]
        r == Uri_from_parts(withScheme)
    IN  IF r.ok THEN EndpointOk(r.uri) ELSE EndpointPanic(uri)

\* Faulty variant of Endpoint_new: the query is checked before the authority.
Endpoint_new_query_first(uri) ==
    IF uri.has_query
    THEN EndpointErr("HasQuery", uri)
    ELSE IF ~uri.authority.some
    THEN EndpointErr("MissingAuthority", uri)
    ELSE IF uri.scheme = "none"
    THEN default_scheme(uri)
    ELSE EndpointOk(uri)

\* Endpoint::new
Endpoint_new(uri) ==
    IF ~uri.authority.some
    THEN EndpointErr("MissingAuthority", uri)
    ELSE IF uri.has_query
    THEN EndpointErr("HasQuery", uri)
    ELSE IF uri.scheme = "none"
    THEN default_scheme(uri)
    ELSE EndpointOk(uri)

\* Endpoint::from_str and deserialization: parse the string, then
\* Endpoint::new.  parsed is the outcome of the parse: a Uri, or NoUri with
\* ok false when the string is no URI.
Endpoint_from_str(ok, parsed) ==
    IF ok THEN Endpoint_new(parsed) ELSE EndpointErr("Invalid", NoUri)

\* Endpoint::from_static: Uri::from_static panics on a string that is no
\* URI, and expect() panics on every error of Endpoint::new.
Endpoint_from_static(ok, parsed) ==
    IF ~ok THEN EndpointPanic(NoUri)
    ELSE LET r == Endpoint_new(parsed)
         IN  IF r.kind = "Ok" THEN r ELSE EndpointPanic(parsed)

\* #[derive(Default)]: Endpoint(Uri::default()).
Endpoint_default == EndpointOk(Uri_default)

\* Endpoint::host: the authority's host; expect() panics without one.
Endpoint_host(uri) ==
    IF uri.authority.some
    THEN [kind |-> "Ok", host |-> uri.authority.host]
    ELSE [kind |-> "Panic", host |-> ""]

\* PathAndQuery::from_maybe_shared on a string of valid characters: the
\* path is what precedes the first '?', the query what follows it.
RECURSIVE IndexOf(_, _, _)
IndexOf(s, c, i) ==
    IF i > Len(s) THEN 0 ELSE IF s[i] = c THEN i ELSE IndexOf(s, c, i + 1)

PathAndQuery_from(s) ==
    LET q == IndexOf(s, "?", 1)
    IN  IF q = 0
        THEN PathAndQuery(s, FALSE, <<>>)
        ELSE PathAndQuery(SubSeq(s, 1, q - 1), TRUE, SubSeq(s, q + 1, Len(s)))

\* Endpoint::build
build(uri, path_and_query) ==
    LET parts == Uri_into_parts(uri)
        base == PathAndQuery_path(parts.path_and_query.path)
        s == <<"/">>
             \o (IF parts.path_and_query.some
                 THEN trim_end_matches(trim_start_matches(base, "/"), "/")
                      \o <<"/">>
                 ELSE <<>>)
             \o trim_start_matches(path_and_query, "/")
        r == Uri_from_parts([parts EXCEPT !.path_and_query = PathAndQuery_from(s)])
    IN  [kind |-> IF r.ok THEN "Ok" ELSE "Panic", uri |-> r.uri]

\* Endpoint::build_uri: an empty query is left out.
build_uri(uri, path, query) ==
    IF query = <<>>
    THEN build(uri, path)
    ELSE build(uri, path \o <<"?">> \o query)

\* Endpoint::new on a Uri.
EndpointNew ==
    /\ \E uri \in Uris :
         endpoint' = [op |-> "new", input |-> uri] @@ Endpoint_new(uri)
    /\ usage' = NoBuilt
    /\ UNCHANGED <<udpVars, svcVars, encodeVars>>

\* Endpoint::from_str (or deserialization) on a string.
EndpointFromStr ==
    /\ \E ok \in BOOLEAN, uri \in Uris :
         LET parsed == IF ok THEN uri ELSE NoUri
         IN  endpoint' = [op |-> "from_str", input |-> parsed]
                            @@ Endpoint_from_str(ok, parsed)
    /\ usage' = NoBuilt
    /\ UNCHANGED <<udpVars, svcVars, encodeVars>>

\* Endpoint::from_static on a string.
EndpointFromStatic ==
    /\ \E ok \in BOOLEAN, uri \in Uris :
         LET parsed == IF ok THEN uri ELSE NoUri
         IN  endpoint' = [op |-> "from_static", input |-> parsed]
                            @@ Endpoint_from_static(ok, parsed)
    /\ usage' = NoBuilt
    /\ UNCHANGED <<udpVars, svcVars, encodeVars>>

\* Endpoint::default()
EndpointDefault ==
    /\ endpoint' = [op |-> "default", input |-> NoUri] @@ Endpoint_default
    /\ usage' = NoBuilt
    /\ UNCHANGED <<udpVars, svcVars, encodeVars>>

\* build_uri on the endpoint held.
EndpointBuildUri ==
    /\ endpoint.kind = "Ok"
    /\ \E path \in RelPaths, query \in Queries :
         usage' = [op |-> "build_uri", path |-> path, query |-> query,
                   host |-> ""] @@ build_uri(endpoint.uri, path, query)
    /\ UNCHANGED <<endpoint, udpVars, svcVars, encodeVars>>

\* host() on the endpoint held.
EndpointHost ==
    /\ endpoint.kind = "Ok"
    /\ usage' = [op |-> "host", path |-> <<>>, query |-> <<>>,
                 uri |-> NoUri] @@ Endpoint_host(endpoint.uri)
    /\ UNCHANGED <<endpoint, udpVars, svcVars, encodeVars>>

NextEndpoint ==
    \/ EndpointNew
    \/ EndpointFromStr
    \/ EndpointFromStatic
    \/ EndpointDefault
    \/ EndpointBuildUri
    \/ EndpointHost

SpecEndpoint == Init /\ [][NextEndpoint]_vars

(***************************************************************************)
(* The statsd encoder (src/src/sinks/statsd.rs).                           *)
(***************************************************************************)
\* The characters used, in byte order.
Ascii ==
    <<"\n", "#", "+", ",", "-", ".", "0", "1", "2", "3", "4", "5", "6", "7",
      "8", "9", ":", "@", "_", "a", "b", "c", "d", "e", "f", "g", "h", "i",
      "l", "m", "n", "p", "r", "s", "t", "u", "v", "x", "y", "|">>
Ord(c) == CHOOSE i \in 1..Len(Ascii) : Ascii[i] = c

\* a < b for Strings (the order of BTreeMap and BTreeSet).
RECURSIVE StrLess(_, _)
StrLess(a, b) ==
    IF b = <<>> THEN FALSE
    ELSE IF a = <<>> THEN TRUE
    ELSE IF Head(a) # Head(b) THEN Ord(Head(a)) < Ord(Head(b))
    ELSE StrLess(Tail(a), Tail(b))

\* The iteration order of a BTreeMap's keys or of a BTreeSet.
RECURSIVE iter(_)
iter(keys) ==
    IF keys = {} THEN <<>>
    ELSE LET first == CHOOSE k \in keys : \A o \in keys \ {k} : StrLess(k, o)
         IN  <<first>> \o iter(keys \ {first})

S_true == <<"t", "r", "u", "e">>
S_value == <<"v", "a", "l", "u", "e">>
S_empty_tag == <<"e", "m", "p", "t", "y", "_", "t", "a", "g">>
S_normal_tag == <<"n", "o", "r", "m", "a", "l", "_", "t", "a", "g">>
S_true_tag == <<"t", "r", "u", "e", "_", "t", "a", "g">>
S_abc == <<"a", "b", "c">>

\* Faulty variant of push_tag: the value is always written.
push_tag_always(result, name, value) ==
    result \o name \o <<":">> \o value

\* push_tag
push_tag(result, name, value) ==
    result \o name \o (IF value # S_true THEN <<":">> \o value ELSE <<>>)

\* The for loop of encode_tags over the remaining entries.
RECURSIVE encode_tags_rest(_, _, _)
encode_tags_rest(tags, names, result) ==
    IF names = <<>> THEN result
    ELSE encode_tags_rest(tags, Tail(names),
             push_tag(result \o <<",">>, Head(names), tags[Head(names)]))

\* encode_tags
encode_tags(tags) ==
    LET names == iter(DOMAIN tags)
    IN  IF names = <<>> THEN <<>>
        ELSE encode_tags_rest(tags, Tail(names),
                 push_tag(<<>>, Head(names), tags[Head(names)]))

\* Display of an unsigned integer.
RECURSIVE FormatNat(_)
FormatNat(n) ==
    IF n < 10 THEN <<Ascii[Ord("0") + n]>>
    ELSE FormatNat(n \div 10) \o <<Ascii[Ord("0") + (n % 10)]>>

Abs(h) == IF h < 0 THEN -h ELSE h

\* format!("{}", value) of an f64 held in halves: "1.5", "-1.5", "1", "0".
FormatF64(h) ==
    (IF h < 0 THEN <<"-">> ELSE <<>>)
        \o FormatNat(Abs(h) \div 2)
        \o (IF Abs(h) % 2 = 1 THEN <<".", "5">> ELSE <<>>)

\* format!("{:+}", value): the sign is always shown.
FormatF64Signed(h) ==
    (IF h < 0 THEN <<>> ELSE <<"+">>) \o FormatF64(h)

\* format!("{}", 1.0 / f64::from(sample_rate)): 1/0 is inf.
FormatInverse(sample_rate) ==
    CASE sample_rate = 0 -> <<"i", "n", "f">>
      [] sample_rate = 1 -> <<"1">>
      [] sample_rate = 2 -> <<"0", ".", "5">>
      [] sample_rate = 4 -> <<"0", ".", "2", "5">>

\* The tag segment pushed when metric.tags is Some.
tag_segment(tags) ==
    IF tags.some THEN <<<<"#">> \o encode_tags(tags.map)>> ELSE <<>>

\* The segments pushed for the pairs of a Distribution from index i on
\* (values.iter().zip(sample_rates.iter())).
RECURSIVE distribution_segments(_, _, _)
distribution_segments(metric, metric_type, i) ==
    IF i > Min(Len(metric.value.values), Len(metric.value.sample_rates))
    THEN <<>>
    ELSE <<metric.name \o <<":">> \o FormatF64(metric.value.values[i]),
           metric_type>>
         \o (IF metric.value.sample_rates[i] # 1
             THEN <<<<"@">> \o FormatInverse(metric.value.sample_rates[i])>>
             ELSE <<>>)
         \o tag_segment(metric.tags)
         \o distribution_segments(metric, metric_type, i + 1)

\* The segments pushed for the elements of a Set.
RECURSIVE set_segments(_, _)
set_segments(metric, vals) ==
    IF vals = <<>> THEN <<>>
    ELSE <<metric.name \o <<":">> \o Head(vals), <<"s">>>>
         \o tag_segment(metric.tags)
         \o set_segments(metric, Tail(vals))

\* The match of encode_event: the segments pushed to buf.
segments(metric) ==
    IF metric.kind = "Incremental"
    THEN CASE metric.value.type = "Counter" ->
                <<metric.name \o <<":">> \o FormatF64(metric.value.value),
                  <<"c">>>> \o tag_segment(metric.tags)
           [] metric.value.type = "Gauge" ->
                <<metric.name \o <<":">> \o FormatF64Signed(metric.value.value),
                  <<"g">>>> \o tag_segment(metric.tags)
           [] metric.value.type = "Distribution" ->
                distribution_segments(metric,
                    IF metric.value.statistic = "Histogram" THEN <<"h">>
                    ELSE <<"d">>, 1)
           [] metric.value.type = "Set" ->
                set_segments(metric, iter(metric.value.set))
           [] OTHER -> <<>>
    ELSE IF metric.value.type = "Gauge"
         THEN <<metric.name \o <<":">> \o FormatF64(metric.value.value),
                <<"g">>>> \o tag_segment(metric.tags)
         ELSE <<>>

\* buf.join("|")
RECURSIVE join(_, _)
join(buf, sep) ==
    IF buf = <<>> THEN <<>>
    ELSE IF Len(buf) = 1 THEN Head(buf)
    ELSE Head(buf) \o sep \o join(Tail(buf), sep)

\* Faulty variant of encode_event: the namespace is not prefixed.
encode_event_no_prefix(metric, namespace) ==
    join(segments(metric), <<"|">>) \o <<"\n">>

\* encode_event
encode_event(metric, namespace) ==
    LET message == join(segments(metric), <<"|">>)
    IN  (IF namespace # <<>> THEN namespace \o <<".">> \o message ELSE message)
            \o <<"\n">>

\* The inputs of the encoder.
Names == {<<"c", "p", "u">>}
Namespaces == {<<>>, <<"n", "s">>}
TagKeys == {S_empty_tag, S_normal_tag, S_true_tag}
TagValues == {<<>>, S_value, S_true}
TagMaps == UNION {[K -> TagValues] : K \in SUBSET TagKeys}
TagOptions == {NoTags} \cup {SomeTags(m) : m \in TagMaps}
F64s == {-3, 0, 2, 3}
SampleF64s == {2, 3}
SampleRates == {0, 1, 2}
Samples ==
    UNION {[1..n -> SampleF64s \X SampleRates] : n \in 0..MaxSamples}
SetValues == {S_abc, <<"x">>}
MetricValues ==
    {Counter(v) : v \in F64s}
    \cup {Gauge(v) : v \in F64s}
    \cup {Distribution([i \in DOMAIN s |-> s[i][1]],
                       [i \in DOMAIN s |-> s[i][2]], k) :
            s \in Samples, k \in {"Histogram", "Summary"}}
    \cup {Set(vs) : vs \in SUBSET SetValues}
    \cup {AggregatedHistogram, AggregatedSummary}
Metrics ==
    {Metric(n, tg, k, v) :
        n \in Names, tg \in TagOptions, k \in {"Incremental", "Absolute"},
        v \in MetricValues}

(***************************************************************************)
(* The statsd decoder the encoder's tests pair it with                     *)
(* (sources::statsd::parser::parse).  Its file is not part of the source   *)
(* tree at hand; it is modelled from the wire format of the specification: *)
(* key ':' value '|' type [ '|' '@' rate ] [ '|' '#' tags ].               *)
(***************************************************************************)
\* str::split(c)
RECURSIVE split(_, _)
split(s, c) ==
    LET i == IndexOf(s, c, 1)
    IN  IF i = 0 THEN <<s>>
        ELSE <<SubSeq(s, 1, i - 1)>> \o split(SubSeq(s, i + 1, Len(s)), c)

\* str::trim() on the characters used: "\n" is the only whitespace.
trim(s) == trim_end_matches(trim_start_matches(s, "\n"), "\n")

IsDigit(c) == Ord(c) >= Ord("0") /\ Ord(c) <= Ord("9")

RECURSIVE ParseNat(_, _)
ParseNat(s, acc) ==
    IF s = <<>> THEN acc
    ELSE ParseNat(Tail(s), 10 * acc + (Ord(Head(s)) - Ord("0")))

\* str::parse::<f64>() for the numbers that are whole halves.
parse_f64(s) ==
    LET neg == s # <<>> /\ Head(s) = "-"
        body == IF s # <<>> /\ Head(s) \in {"-", "+"} THEN Tail(s) ELSE s
        dot == IndexOf(body, ".", 1)
        int == IF dot = 0 THEN body ELSE SubSeq(body, 1, dot - 1)
        frac == IF dot = 0 THEN <<>> ELSE SubSeq(body, dot + 1, Len(body))
        ok == /\ int # <<>>
              /\ \A i \in 1..Len(int) : IsDigit(int[i])
              /\ frac \in {<<>>, <<"0">>, <<"5">>}
        mag == 2 * ParseNat(int, 0) + (IF frac = <<"5">> THEN 1 ELSE 0)
    IN  IF ok THEN [ok |-> TRUE, value |-> IF neg THEN -mag ELSE mag]
        ELSE [ok |-> FALSE, value |-> 0]

\* 1.0 / sanitize_sampling(parse_sampling(s)): a rate outside (0, 1] counts
\* as 1.
parse_sample_rate(s) ==
    CASE s = <<"@", "1">> -> [ok |-> TRUE, rate |-> 1]
      [] s = <<"@", "0", ".", "5">> -> [ok |-> TRUE, rate |-> 2]
      [] s = <<"@", "0", ".", "2", "5">> -> [ok |-> TRUE, rate |-> 4]
      [] s = <<"@", "i", "n", "f">> -> [ok |-> TRUE, rate |-> 1]
      [] OTHER -> [ok |-> FALSE, rate |-> 1]

\* parse_tags: "#" alone is malformed; a chunk without ':' has the value
\* "true"; a later chunk replaces an earlier one of the same key.
parse_tags(input) ==
    IF Len(input) < 2 THEN [ok |-> FALSE, map |-> EmptyMap]
    ELSE LET chunks == split(Tail(input), ",")
             pair(i) == split(chunks[i], ":")
             keys == {pair(i)[1] : i \in DOMAIN chunks}
             lastOf(k) ==
                 CHOOSE i \in DOMAIN chunks :
                     /\ pair(i)[1] = k
                     /\ \A j \in DOMAIN chunks : pair(j)[1] = k => j <= i
         IN  [ok |-> TRUE,
              map |-> [k \in keys |->
                          IF Len(pair(lastOf(k))) >= 2
                          THEN pair(lastOf(k))[2] ELSE S_true]]

ParseErr == [ok |-> FALSE, metric |-> NoMetric]
ParseOk(metric) == [ok |-> TRUE, metric |-> metric]

\* parse
parse(packet) ==
    LET colon == IndexOf(packet, ":", 1)
        key == SubSeq(packet, 1, colon - 1)
        body == SubSeq(packet, colon + 1, Len(packet))
        parts == split(body, "|")
        metric_type == parts[2]
        sampled == Len(parts) >= 3 /\ parts[3] # <<>> /\ Head(parts[3]) = "@"
        sampling == IF sampled THEN parse_sample_rate(parts[3])
                    ELSE [ok |-> TRUE, rate |-> 1]
        tagAt == IF sampled THEN 4 ELSE 3
        tagged == /\ Len(parts) >= tagAt
                  /\ parts[tagAt] # <<>>
                  /\ Head(parts[tagAt]) = "#"
        tagsParsed == IF tagged THEN parse_tags(parts[tagAt])
                      ELSE [ok |-> TRUE, map |-> EmptyMap]
        tags == IF tagged THEN SomeTags(tagsParsed.map) ELSE NoTags
        val == parse_f64(parts[1])
        signed == parts[1] # <<>> /\ ~IsDigit(Head(parts[1]))
    IN  IF colon = 0 THEN ParseErr
        ELSE IF Len(parts) < 2 THEN ParseErr
        ELSE IF ~sampling.ok \/ ~tagsParsed.ok THEN ParseErr
        ELSE CASE metric_type = <<"c">> ->
                    IF ~val.ok THEN ParseErr
                    ELSE ParseOk(Metric(key, tags, "Incremental",
                                        Counter(val.value * sampling.rate)))
               [] metric_type \in {<<"h">>, <<"d">>} ->
                    IF ~val.ok THEN ParseErr
                    ELSE ParseOk(Metric(key, tags, "Incremental",
                             Distribution(<<val.value>>, <<sampling.rate>>,
                                 IF metric_type = <<"d">> THEN "Summary"
                                 ELSE "Histogram")))
               [] metric_type = <<"g">> ->
                    IF ~val.ok \/ (signed /\ Head(parts[1]) \notin {"+", "-"})
                    THEN ParseErr
                    ELSE ParseOk(Metric(key, tags,
                             IF signed THEN "Incremental" ELSE "Absolute",
                             Gauge(val.value)))
               [] metric_type = <<"s">> ->
                    ParseOk(Metric(key, tags, "Incremental", Set({parts[1]})))
               [] OTHER -> ParseErr

\* The metric and namespace handed to encode_event, before the call.
EncodeInput(metric, namespace) ==
    [op |-> "input", metric |-> metric, namespace |-> namespace,
     frame |-> <<>>]

\* The tag map handed to encode_tags, before the call.
TagsInput(tags) == [op |-> "input", tags |-> tags, out |-> <<>>]

\* The encoder is a pure function: the initial state holds its argument.
InitEncode ==
    /\ udp = UdpSink_new(ConfigPort)
    /\ nextLine = 1
    /\ sendLog = <<>>
    /\ last = NoCall
    /\ reqs = [b \in Batches |-> NoRequest]
    /\ nextBatch = 1
    /\ wire = <<>>
    /\ svcReady = FALSE
    /\ svcLast = NoSvcCall
    /\ endpoint = NoEndpoint
    /\ usage = NoBuilt
    /\ dec = NoDecode
    /\ \/ /\ enc \in {EncodeInput(m, ns) : m \in Metrics, ns \in Namespaces}
          /\ tagsOut = NoTagsOut
       \/ /\ enc = NoEncode
          /\ tagsOut \in {TagsInput(tags) : tags \in TagMaps}

\* encode_event on a metric event.
EncodeEvent ==
    /\ enc.op = "input"
    /\ enc' = [enc EXCEPT !.op = "encode_event",
                          !.frame = encode_event(enc.metric, enc.namespace)]
    /\ UNCHANGED <<dec, tagsOut, udpVars, svcVars, endpointVars>>

\* encode_tags on a tag map.
EncodeTags ==
    /\ tagsOut.op = "input"
    /\ tagsOut' = [tagsOut EXCEPT !.op = "encode_tags",
                                  !.out = encode_tags(tagsOut.tags)]
    /\ UNCHANGED <<enc, dec, udpVars, svcVars, endpointVars>>

\* The encoder's tests: parse(from_utf8(&frame).unwrap().trim()).
ParseFrame ==
    /\ enc.op = "encode_event"
    /\ dec.op = "none"
    /\ dec' = [op |-> "parse"] @@ parse(trim(enc.frame))
    /\ UNCHANGED <<enc, tagsOut, udpVars, svcVars, endpointVars>>

NextEncode ==
    \/ EncodeEvent
    \/ EncodeTags
    \/ ParseFrame

SpecEncode == InitEncode /\ [][NextEncode]_vars

(***************************************************************************)
(* Properties of the UdpSink (checked under Spec).                         *)
(***************************************************************************)
IsStartSend == last.op = "start_send"

\* The k-th delay of the backoff sequence, in closed form:
\* min(2^k * 250 ms, 60 s).
ExpectedDelay(k) ==
    Min(BackoffFactor * Pow(BackoffBaseMillis, k), MaxDelaySecs * 1000)

Unresolved(s) ==
    \/ s.state = "ResolvingDns" /\ s.dns.kind = "pending"
    \/ s.state = "Backoff" /\ s.timer = "running"

\* C1: start_send called in ResolvingDns with the lookup pending, or in
\* Backoff with the delay not elapsed, answers NotReady carrying the same
\* line and attempts no send; and whenever a call ends with the destination
\* unresolved, the line is handed back, never swallowed.
C1_NotReadyHandsLineBack ==
    IsStartSend =>
        /\ Unresolved(last.pre) =>
              /\ last.ret = AsyncSinkNotReady(last.line)
              /\ last.sends = <<>>
        /\ last.post.state # "ResolvedDns" =>
              /\ last.ret = AsyncSinkNotReady(last.line)
              /\ last.sends = <<>>

\* A second line, offered while the sink waits in Backoff, is handed back.
C1_Witness ==
    /\ IsStartSend
    /\ last.pre.state = "Backoff"
    /\ last.pre.timer = "running"
    /\ last.line = 2
    /\ last.ret = AsyncSinkNotReady(2)

\* C3: every send is attempted in state ResolvedDns, and its destination is
\* the first address of the successful resolution with the configured port.
C3_SendOnlyResolvedFirstAddr ==
    \A i \in 1..Len(sendLog) :
        /\ sendLog[i].at = "ResolvedDns"
        /\ udp.answer.kind = "ok"
        /\ udp.answer.addrs # <<>>
        /\ sendLog[i].addr = SocketAddr(Head(udp.answer.addrs), ConfigPort)

\* Two sends after a resolution that returned the addresses <<2, 1>>.
C3_Witness ==
    /\ Len(sendLog) = 2
    /\ udp.answer = DnsOk(<<2, 1>>)
    /\ sendLog[2].addr = SocketAddr(2, ConfigPort)

\* C4: from ResolvingDns a resolution error and an empty successful
\* resolution have the same effect: the state becomes Backoff armed with
\* the next backoff delay, the call answers NotReady (no ResolvedDns, no
\* error); and a call that finds the delay elapsed passes through
\* Initializing and starts a fresh resolution.
C4_FailureBacksOffThenResolvesAgain ==
    IsStartSend =>
        /\ (last.pre.state = "ResolvingDns" /\ DnsFails(last.pre.dns)) =>
              /\ last.path = <<"ResolvingDns", "Backoff">>
              /\ last.ret = AsyncSinkNotReady(last.line)
              /\ [last.post EXCEPT !.answer = NoDns] =
                    [last.pre EXCEPT
                        !.state = "Backoff", !.dns = NoDns,
                        !.timer = "running",
                        !.delay = ExpectedDelay(last.pre.failures + 1),
                        !.delays = Append(@, ExpectedDelay(last.pre.failures + 1)),
                        !.failures = @ + 1,
                        !.backoff = backoff_next(last.pre.backoff).backoff,
                        !.answer = NoDns]
        /\ (last.pre.state = "Backoff" /\ last.pre.timer = "elapsed") =>
              /\ Len(last.path) >= 3
              /\ last.path[2] = "Initializing"
              /\ last.path[3] = "ResolvingDns"
              /\ last.post.lookups = last.pre.lookups + 1

\* An empty resolution led to Backoff; the call after the delay elapsed
\* started a new lookup, which is pending.
C4_Witness ==
    /\ IsStartSend
    /\ last.pre.state = "Backoff"
    /\ last.pre.timer = "elapsed"
    /\ last.pre.answer = DnsOk(<<>>)
    /\ last.post.state = "ResolvingDns"
    /\ last.post.lookups = 2

\* C5: a start_send whose send_to fails still answers Ready, emits
\* UdpSendFailed and leaves the state alone; the failed line is sent by no
\* other send, and poll_complete sends nothing.
C5_FailedSendDroppedNotRetried ==
    /\ \A i, j \in 1..Len(sendLog) :
          (~sendLog[i].ok /\ i # j) => sendLog[j].line # sendLog[i].line
    /\ (IsStartSend /\ last.sends # <<>> /\ ~last.sends[1].ok) =>
          /\ last.ret = AsyncSinkReady
          /\ last.events = <<"UdpSendFailed">>
          /\ last.post.state = "ResolvedDns"
          /\ last.pre.state = "ResolvedDns" => last.post = last.pre
    /\ last.op = "poll_complete" =>
          /\ last.sends = <<>>
          /\ last.ret = AsyncSinkReady

\* The send of line 1 failed, line 2 was sent after it, and poll_complete
\* has run since.
C5_Witness ==
    /\ Len(sendLog) = 2
    /\ ~sendLog[1].ok
    /\ sendLog[1].line = 1
    /\ sendLog[2].line = 2
    /\ last.op = "poll_complete"

\* C9: the delays armed by successive failures are non-decreasing and none
\* exceeds the 60 s cap.
C9_DelaysMonotoneCapped ==
    \A i \in 1..Len(udp.delays) :
        /\ udp.delays[i] <= MaxDelaySecs * 1000
        /\ i > 1 => udp.delays[i - 1] <= udp.delays[i]

\* Nine failures: the seventh delay is 32 s, the eighth and ninth the cap.
C9_Witness ==
    /\ Len(udp.delays) >= 9
    /\ udp.delays[7] = 32000
    /\ udp.delays[8] = 60000
    /\ udp.delays[9] = 60000

\* C10: the generator is drawn from once per resolution failure and touched
\* by nothing else: the k-th failure uses the k-th delay of the sequence, a
\* call changes the generator only if it counted a failure, the generator
\* never moves backwards, and after a failure it is never at its start.
C10_BackoffOnlyAdvancesOnFailure ==
    /\ Len(udp.delays) = udp.failures
    /\ \A k \in 1..Len(udp.delays) : udp.delays[k] = ExpectedDelay(k)
    /\ udp.failures > 0 => udp.backoff # fresh_backoff
    /\ last.op # "none" =>
          /\ last.post.failures \in {last.pre.failures, last.pre.failures + 1}
          /\ last.post.failures = last.pre.failures =>
                last.post.backoff = last.pre.backoff
          /\ last.post.backoff.current >= last.pre.backoff.current

\* After two failures the resolution succeeded and a send failed: the
\* generator is where the second failure left it.
C10_Witness ==
    /\ IsStartSend
    /\ udp.failures = 2
    /\ udp.state = "ResolvedDns"
    /\ last.sends # <<>>
    /\ ~last.sends[1].ok
    /\ udp.backoff.current = 8

\* C22: ResolvedDns is absorbing: once the state is ResolvedDns(addr), no
\* start_send or poll_complete, a send that fails included, and no step of
\* the resolver or of a timer changes the sink: its state, its address, the
\* lookups it has started and the delays it has armed stay as they are.
C22_ResolvedAbsorbing ==
    [][udp.state = "ResolvedDns" => udp' = udp]_vars

\* A send that failed in ResolvedDns, followed by a second send.
C22_Witness ==
    /\ IsStartSend
    /\ last.pre.state = "ResolvedDns"
    /\ Len(sendLog) = 2
    /\ ~sendLog[1].ok
    /\ sendLog[1].at = "ResolvedDns"
    /\ udp.state = "ResolvedDns"

RestingStates == {"ResolvingDns", "ResolvedDns", "Backoff"}

\* C23: Initializing is left for ResolvingDns within the poll in which it
\* is entered: in the states a start_send passes, Initializing is always
\* followed by ResolvingDns; after every start_send the state is
\* ResolvingDns, ResolvedDns or Backoff; and the sink is in Initializing
\* only while no start_send has been called on it.
C23_InitializingNeverRests ==
    /\ IsStartSend =>
          /\ last.post.state \in RestingStates
          /\ \A i \in 1..Len(last.path) :
                last.path[i] = "Initializing" =>
                    /\ i < Len(last.path)
                    /\ last.path[i + 1] = "ResolvingDns"
    /\ udp.state = "Initializing" =>
          /\ udp.lookups = 0
          /\ sendLog = <<>>
          /\ last.op # "start_send"

\* A call that found the delay elapsed went through Initializing and rests
\* in ResolvingDns.
C23_Witness ==
    /\ IsStartSend
    /\ last.pre.state = "Backoff"
    /\ last.path = <<"Backoff", "Initializing", "ResolvingDns">>
    /\ udp.state = "ResolvingDns"

\* C24: each start_send either answers Ready after exactly one send_to of
\* its line, or answers NotReady with the same line after no send_to; the
\* log of sends holds one entry per accepted line.
C24_SentOnceOrHandedBack ==
    /\ IsStartSend =>
          \/ /\ last.ret = AsyncSinkReady
             /\ Len(last.sends) = 1
             /\ last.sends[1].line = last.line
          \/ /\ last.ret = AsyncSinkNotReady(last.line)
             /\ last.sends = <<>>
    /\ \A i, j \in 1..Len(sendLog) :
          i # j => sendLog[i].line # sendLog[j].line
    /\ \A i \in 1..Len(sendLog) : sendLog[i].line < nextLine

\* Line 3, offered when the lookup had completed, was sent once in that
\* call, the send failing, and accepted.
C24_Witness ==
    /\ IsStartSend
    /\ last.line = 3
    /\ last.ret = AsyncSinkReady
    /\ last.sends = <<SendTo(3, udp.addr, FALSE, "ResolvedDns")>>
    /\ last.pre.state = "ResolvingDns"

(***************************************************************************)
(* Liveness of the UdpSink (checked under SpecFair).                       *)
(***************************************************************************)
Sent(l) == \E i \in 1..Len(sendLog) : sendLog[i].line = l

Rejected == IsStartSend /\ last.ret.kind = "NotReady"
Accepted == IsStartSend /\ last.ret.kind = "Ready"

\* C25: resolution failures never make the sink fail permanently.  The line
\* handed back is the one the caller offers again, and a rejection is
\* eventually followed by an acceptance, which is of that line and sends
\* it; a sink in Backoff eventually starts a resolution again; every
\* start_send answers Ready or NotReady, never an error.
C25_FailuresNeverPermanent ==
    /\ Rejected ~> Accepted
    /\ [](Rejected => last.ret.line = nextLine)
    /\ [](Accepted => (last.line = nextLine - 1 /\ Sent(last.line)))
    /\ (udp.state = "Backoff") ~> (udp.state \in {"ResolvingDns", "ResolvedDns"})
    /\ [](IsStartSend => last.ret.kind \in {"Ready", "NotReady"})

\* Line 1 was sent after two failed resolutions and their delays.
C25_Witness ==
    /\ udp.failures = 2
    /\ udp.delays = <<ExpectedDelay(1), ExpectedDelay(2)>>
    /\ udp.state = "ResolvedDns"
    /\ sendLog # <<>>
    /\ sendLog[1].line = 1
    /\ IsStartSend
    /\ last.ret = AsyncSinkReady

(***************************************************************************)
(* Properties of the StatsdSvc facade (checked under SpecStatsd).          *)
(***************************************************************************)
\* C2: the readiness check of StatsdSvc answers "not ready" whenever a
\* transport of the service is in ResolvingDns or Backoff.
C2_NotReadyWhileUnresolved ==
    (svcLast.op = "poll_ready" /\ svcLast.busy) => svcLast.ret # "Ready"

\* C6: once a batch has resolved the destination, polling the service's
\* futures starts a new DNS resolution only from Backoff.
C6_NoNewResolutionAfterResolved ==
    (svcLast.op = "poll" /\ svcLast.lookupStarted /\ svcLast.resolvedBefore)
        => svcLast.fromBackoff

\* C7: the datagram sends of the batches are attempted in the order the
\* batches were closed.
C7_BatchesSentInOrder ==
    \A i, j \in 1..Len(wire) : i < j => wire[i] < wire[j]

\* C8: no future returned by call() resolves to an error.
C8_CallNeverErrs ==
    \A b \in Batches : reqs[b].status # "err"

(***************************************************************************)
(* Properties of Endpoint (checked under SpecEndpoint).                    *)
(***************************************************************************)
\* C11: Endpoint::new fails with MissingAuthority for every URI without an
\* authority (also when it has a query), with HasQuery for every URI with an
\* authority and a query, and returns Ok for every other URI.
C11_NewErrors ==
    endpoint.op = "new" =>
        /\ ~endpoint.input.authority.some =>
              (endpoint.kind = "Err" /\ endpoint.error = "MissingAuthority")
        /\ (endpoint.input.authority.some /\ endpoint.input.has_query) =>
              (endpoint.kind = "Err" /\ endpoint.error = "HasQuery")
        /\ (endpoint.input.authority.some /\ ~endpoint.input.has_query) =>
              endpoint.kind = "Ok"

\* A URI with no authority and a query is refused for its missing authority.
C11_Witness ==
    /\ endpoint.op = "new"
    /\ ~endpoint.input.authority.some
    /\ endpoint.input.has_query
    /\ endpoint.error = "MissingAuthority"

\* C12: every Endpoint obtained from new, from_str or Default has an
\* authority, no query and a scheme (HTTPS when the input had none), and
\* host() on it does not panic.
C12_EndpointInvariant ==
    /\ endpoint.kind = "Ok" =>
          /\ endpoint.uri.authority.some
          /\ ~endpoint.uri.has_query
          /\ endpoint.uri.scheme # "none"
          /\ endpoint.input.scheme = "none" => endpoint.uri.scheme = "https"
    /\ usage.op = "host" => usage.kind = "Ok"

\* What joining the base path p and the relative path r must give: one
\* leading '/', the base without its outer slashes, one '/' and the relative
\* path without its leading slashes (the base part left out when empty).
ExpectedJoin(p, r) ==
    LET b == trim_end_matches(trim_start_matches(p, "/"), "/")
        rel == trim_start_matches(r, "/")
    IN  IF b = <<>> THEN <<"/">> \o rel ELSE <<"/">> \o b \o <<"/">> \o rel

\* C13: build_uri joins the endpoint's base path and the relative path with
\* one leading '/' and one '/' between them, for every base path, the empty
\* and the root path included.
C13_JoinOneSlash ==
    (usage.op = "build_uri" /\ usage.kind = "Ok") =>
        usage.uri.path = ExpectedJoin(Uri_path(endpoint.uri), usage.path)

(***************************************************************************)
(* Properties of the statsd encoder (checked under SpecEncode).            *)
(***************************************************************************)
Encoded == enc.op = "encode_event"

\* A kind/value combination encode_event has no arm for.
Unsupported(metric) ==
    \/ metric.kind = "Absolute" /\ metric.value.type # "Gauge"
    \/ /\ metric.kind = "Incremental"
       /\ metric.value.type \notin {"Counter", "Gauge", "Distribution", "Set"}

\* C14: encoding a metric of an unsupported kind/value combination produces
\* no wire output at all, for every namespace.
C14_UnsupportedNoOutput ==
    (Encoded /\ Unsupported(enc.metric)) => enc.frame = <<>>

\* The number of tags of a metric.
TagCount(metric) == Cardinality(DOMAIN metric.tags.map)

\* C15: for a metric that has zero tags, its tag mapping absent or present
\* but empty, the encoded line never contains a '#' segment.
C15_ZeroTagsNoHash ==
    (Encoded /\ TagCount(enc.metric) = 0) =>
        \A i \in 1..Len(enc.frame) : enc.frame[i] # "#"

\* The rendering the tag format prescribes for one tag.
ExpectedTag(name, value) ==
    IF value = S_true THEN name ELSE name \o <<":">> \o value

\* The example of the encoder's test.
ExampleTags ==
    [k \in TagKeys |->
        CASE k = S_empty_tag -> <<>>
          [] k = S_normal_tag -> S_value
          [] k = S_true_tag -> S_true]
ExampleTagsOut ==
    S_empty_tag \o <<":", ",">> \o S_normal_tag \o <<":">> \o S_value
        \o <<",">> \o S_true_tag

\* C16: encode_tags renders each tag as its name alone when its value is
\* "true" and as name:value otherwise, in ascending key order, joined by
\* single commas with no leading or trailing comma; the example of the test
\* gives "empty_tag:,normal_tag:value,true_tag".
C16_EncodeTagsFormat ==
    tagsOut.op = "encode_tags" =>
        /\ \E order \in [1..Cardinality(DOMAIN tagsOut.tags) -> DOMAIN tagsOut.tags] :
             /\ \A i, j \in DOMAIN order : i < j => StrLess(order[i], order[j])
             /\ tagsOut.out =
                    join([i \in DOMAIN order |->
                             ExpectedTag(order[i], tagsOut.tags[order[i]])],
                         <<",">>)
        /\ tagsOut.tags = ExampleTags => tagsOut.out = ExampleTagsOut

C16_Witness ==
    /\ tagsOut.op = "encode_tags"
    /\ tagsOut.tags = ExampleTags
    /\ tagsOut.out = ExampleTagsOut

\* The metric with every sample rate 0 replaced by 1.
ZeroRatesAsOne(metric) ==
    [metric EXCEPT !.value.sample_rates =
        [i \in DOMAIN @ |-> IF @[i] = 0 THEN 1 ELSE @[i]]]

HasZeroRate(metric) ==
    /\ metric.kind = "Incremental"
    /\ metric.value.type = "Distribution"
    /\ \E i \in 1..Min(Len(metric.value.values), Len(metric.value.sample_rates)) :
         metric.value.sample_rates[i] = 0

\* C17: a Distribution pair whose sample_rate is 0 is either rejected or
\* encoded exactly as if its sample_rate were 1; no rate segment derived
\* from a division by zero is emitted.
C17_ZeroRateRejectedOrOne ==
    (Encoded /\ HasZeroRate(enc.metric)) =>
        \/ enc.frame = <<>>
        \/ enc.frame = encode_event(ZeroRatesAsOne(enc.metric), enc.namespace)

\* The number of lines of a frame: its newline bytes.
LineCount(frame) == Cardinality({i \in 1..Len(frame) : frame[i] = "\n"})

\* The number of values of a multi-value metric: the pairs of a
\* Distribution, the elements of a Set.
ValueCount(metric) ==
    IF metric.value.type = "Distribution"
    THEN Min(Len(metric.value.values), Len(metric.value.sample_rates))
    ELSE Cardinality(metric.value.set)

MultiValue(metric) ==
    /\ metric.kind = "Incremental"
    /\ metric.value.type \in {"Distribution", "Set"}
    /\ ValueCount(metric) >= 1

\* C18: an Incremental Distribution with n pairs or an Incremental Set with
\* n elements is encoded as n wire lines, one per value.
C18_OneLinePerValue ==
    (Encoded /\ MultiValue(enc.metric)) =>
        LineCount(enc.frame) = ValueCount(enc.metric)

\* C19: the output of encode_event ends with exactly one newline; with a
\* non-empty namespace it is the namespace, '.', and the output for the
\* empty namespace; with an empty namespace it is the joined segments and
\* the newline, without a prefix.
C19_NewlineAndNamespace ==
    Encoded =>
        /\ enc.frame # <<>>
        /\ enc.frame[Len(enc.frame)] = "\n"
        /\ LineCount(enc.frame) = 1
        /\ enc.namespace # <<>> =>
             enc.frame = enc.namespace \o <<".">>
                             \o join(segments(enc.metric), <<"|">>) \o <<"\n">>
        /\ enc.namespace = <<>> =>
             enc.frame = join(segments(enc.metric), <<"|">>) \o <<"\n">>

C19_Witness ==
    /\ Encoded
    /\ enc.namespace = <<"n", "s">>
    /\ enc.metric.value = Counter(3)
    /\ enc.metric.kind = "Incremental"
    /\ enc.metric.tags = NoTags
    /\ enc.frame = <<"n", "s", ".", "c", "p", "u", ":", "1", ".", "5", "|",
                     "c", "\n">>

\* The metrics of the round trip: single-value Incremental Counter, Gauge,
\* Distribution with sample rate 1, and Set.
SingleValue(metric) ==
    /\ metric.kind = "Incremental"
    /\ \/ metric.value.type \in {"Counter", "Gauge"}
       \/ /\ metric.value.type = "Distribution"
          /\ Len(metric.value.values) = 1
          /\ metric.value.sample_rates = <<1>>
       \/ /\ metric.value.type = "Set"
          /\ Cardinality(metric.value.set) = 1

\* C20: for single-value Incremental metrics and an empty namespace,
\* decoding the encoded bytes reproduces the original metric.
C20_RoundTrip ==
    (dec.op = "parse" /\ enc.namespace = <<>> /\ SingleValue(enc.metric)) =>
        (dec.ok /\ dec.metric = enc.metric)

\* The round trip of the metrics whose tag mapping is absent or non-empty.
RoundTripTagged ==
    (/\ dec.op = "parse"
     /\ enc.namespace = <<>>
     /\ SingleValue(enc.metric)
     /\ (enc.metric.tags.some => TagCount(enc.metric) > 0)) =>
        (dec.ok /\ dec.metric = enc.metric)

==========================================================================
